---- MODULE Spec2Model ----
(***************************************************************************)
(* Authenticated GraphQL client of the Spacelift flows app (client module  *)
(* and the "create stack from blueprint" block).                           *)
(*                                                                         *)
(* Strings the code takes apart (error messages, error texts) are          *)
(* sequences of one-character strings; strings the code only concatenates  *)
(* or compares (cache keys, tokens, configuration values) are TLA+ strings.*)
(* JavaScript values of the untyped configuration mapping are pairs        *)
(* <<type, text>>.  Time is Date.now(), in milliseconds.                   *)
(***************************************************************************)
EXTENDS Integers, Sequences, FiniteSets, TLC

VARIABLES calls, cache, clock, ticks, events

vars == <<calls, cache, clock, ticks, events>>

----------------------------------------------------------------------------
(* Bounds of the model *)

\* Date.now() when the behaviour starts, in milliseconds (not a whole second)
StartMs == 1000500
\* how far one step of the clock advances it, in milliseconds
TickMs == 60000
\* how many times the clock advances
MaxTicks == 2

(* Program constants *)

\* the safety buffer, in seconds
SafetyBufferSeconds == 300
\* the least TTL, in seconds
MinTtlSeconds == 60
\* Date.now() is in milliseconds
MsPerSecond == 1000

----------------------------------------------------------------------------
(* Character sequences *)

UpperChars ==
  <<"A", "B", "C", "D", "E", "F", "G", "H", "I", "J", "K", "L", "M", "N", "O", "P", "Q", "R", "S", "T", "U", "V", "W", "X", "Y", "Z">>
LowerChars ==
  <<"a", "b", "c", "d", "e", "f", "g", "h", "i", "j", "k", "l", "m", "n", "o", "p", "q", "r", "s", "t", "u", "v", "w", "x", "y", "z">>

\* one character of String.prototype.toLowerCase
ToLowerChar(c) ==
  IF \E i \in 1..Len(UpperChars) : UpperChars[i] = c
  THEN LowerChars[CHOOSE i \in 1..Len(UpperChars) : UpperChars[i] = c]
  ELSE c

\* String.prototype.toLowerCase
ToLowerCase(s) == [i \in 1..Len(s) |-> ToLowerChar(s[i])]

\* String.prototype.includes
Includes(s, needle) ==
  \E i \in 0..(Len(s) - Len(needle)) : SubSeq(s, i + 1, i + Len(needle)) = needle

\* Array.prototype.join on an array of strings
RECURSIVE Join(_, _)
Join(strs, sep) ==
  IF Len(strs) = 0 THEN <<>>
  ELSE IF Len(strs) = 1 THEN strs[1]
  ELSE strs[1] \o sep \o Join(Tail(strs), sep)

\* the decimal digits of a natural number, as a template literal prints it
Digits == <<"0", "1", "2", "3", "4", "5", "6", "7", "8", "9">>
RECURSIVE NatToChars(_)
NatToChars(n) ==
  IF n < 10 THEN <<Digits[n + 1]>>
  ELSE NatToChars(n \div 10) \o <<Digits[(n % 10) + 1]>>

\* the text the code searches the error messages for
NeedleUnauthorized ==
  <<"u", "n", "a", "u", "t", "h", "o", "r", "i", "z", "e", "d">>
MsgMissingCredentials ==
  <<"M", "i", "s", "s", "i", "n", "g", " ", "r", "e", "q", "u", "i", "r", "e", "d", " ", "S", "p", "a", "c", "e", "l", "i", "f", "t", " ", "c", "r", "e", "d", "e", "n", "t", "i", "a", "l", "s", " ", "i", "n", " ", "a", "p", "p", " ", "c", "o", "n", "f", "i", "g">>
MsgAuthenticationFailed ==
  <<"A", "u", "t", "h", "e", "n", "t", "i", "c", "a", "t", "i", "o", "n", " ", "f", "a", "i", "l", "e", "d", ":", " ">>
MsgNoJwt ==
  <<"F", "a", "i", "l", "e", "d", " ", "t", "o", " ", "o", "b", "t", "a", "i", "n", " ", "J", "W", "T", " ", "t", "o", "k", "e", "n", " ", "o", "r", " ", "e", "x", "p", "i", "r", "a", "t", "i", "o", "n", " ", "t", "i", "m", "e">>
MsgGraphQLError ==
  <<"G", "r", "a", "p", "h", "Q", "L", " ", "e", "r", "r", "o", "r", ":", "\n">>
MsgNoData ==
  <<"N", "o", " ", "d", "a", "t", "a", " ", "r", "e", "t", "u", "r", "n", "e", "d", " ", "f", "r", "o", "m", " ", "S", "p", "a", "c", "e", "l", "i", "f", "t", " ", "A", "P", "I">>
\* no error raised
NoError == <<>>

----------------------------------------------------------------------------
(* JavaScript values of the configuration mapping: <<type, text>> *)

Undefined == <<"undefined", "">>
JsNull == <<"null", "">>
JsStr(s) == <<"string", s>>
JsNum(s) == <<"number", s>>
JsBool(s) == <<"boolean", s>>

\* the truthiness the ! operator tests
Truthy(v) ==
  CASE v[1] = "string" -> v[2] # ""
    [] v[1] = "number" -> v[2] \notin {"0", "NaN"}
    [] v[1] = "boolean" -> v[2] = "true"
    [] OTHER -> FALSE

\* the text a template literal or String(v) gives
ToStr(v) == IF v[1] \in {"undefined", "null"} THEN v[1] ELSE v[2]

----------------------------------------------------------------------------
(* Credentials *)

NoCredentials ==
  [apiKeyId |-> Undefined, apiKeySecret |-> Undefined, endpoint |-> Undefined]

\* a key that tells the secrets apart
getCacheKeyWithSecret(credentials) ==
  "spacelift_jwt_" \o ToStr(credentials.endpoint) \o "_" \o ToStr(credentials.apiKeyId)
    \o "_" \o ToStr(credentials.apiKeySecret)

getCacheKey(credentials) ==
  "spacelift_jwt_" \o ToStr(credentials.endpoint) \o "_" \o ToStr(credentials.apiKeyId)

\* the condition under which extractCredentials throws
extractThrowsOnlyOnKeyId(appConfig) ==
  ~Truthy(appConfig.apiKeyId)

extractThrowsIgnoresEndpoint(appConfig) ==
  \/ ~Truthy(appConfig.apiKeyId)
  \/ ~Truthy(appConfig.apiKeySecret)

extractThrows(appConfig) ==
  \/ ~Truthy(appConfig.apiKeyId)
  \/ ~Truthy(appConfig.apiKeySecret)
  \/ ~Truthy(appConfig.endpoint)

\* [threw, error, value]: the exception, or the value returned
extractCredentials(appConfig) ==
  IF extractThrows(appConfig)
  THEN [threw |-> TRUE, error |-> MsgMissingCredentials, value |-> NoCredentials]
  ELSE [threw |-> FALSE, error |-> NoError,
        value |-> [apiKeyId |-> appConfig.apiKeyId,
                   apiKeySecret |-> appConfig.apiKeySecret,
                   endpoint |-> appConfig.endpoint]]

----------------------------------------------------------------------------
(* GraphQL responses: SpaceliftApiResponse *)

\* e.extensions: absent, an object (its entries in order), or a bare string
NoExt == [kind |-> "absent", entries |-> <<>>, text |-> <<>>]
ObjExt(entries) == [kind |-> "object", entries |-> entries, text |-> <<>>]
StrExt(text) == [kind |-> "string", entries |-> <<>>, text |-> text]
Err(m) == [message |-> m, extensions |-> NoExt]

\* the truthiness of e.extensions
ExtTruthy(ext) ==
  CASE ext.kind = "object" -> TRUE
    [] ext.kind = "string" -> ext.text # <<>>
    [] OTHER -> FALSE

NoData == [stackIds |-> <<>>, runIds |-> <<>>]

Response(hasErrors, errors, hasData, data) ==
  [hasErrors |-> hasErrors, errors |-> errors, hasData |-> hasData, data |-> data]

NoResponse == Response(FALSE, <<>>, FALSE, NoData)

\* result.errors.map((e) => e.message)
Messages(errors) == [i \in 1..Len(errors) |-> errors[i].message]

formatExtensions(ext) ==
  IF ext.kind # "object"
  THEN <<"\"">> \o ext.text \o <<"\"">>
  ELSE Join([i \in 1..Len(ext.entries) |->
               <<" ", " ", " ", " ">> \o NatToChars(i) \o <<".", " ">>
                 \o ext.entries[i][1] \o <<":", " ">> \o ext.entries[i][2]],
            <<"\n">>)

\* one line of the GraphQL error text
ErrorLine(e) ==
  IF ExtTruthy(e.extensions)
  THEN <<" ", "-", " ">> \o e.message \o <<":", "\n">> \o formatExtensions(e.extensions)
  ELSE <<" ", "-", " ">> \o e.message

\* the message of the error executeSpaceliftQuery throws for result.errors
GraphQLErrorTextFirstOnly(errors) ==
  MsgGraphQLError
    \o Join([i \in 1..(IF Len(errors) > 0 THEN 1 ELSE 0) |-> ErrorLine(errors[i])], <<"\n">>)
    \o <<"\n">>

GraphQLErrorText(errors) ==
  MsgGraphQLError
    \o Join([i \in 1..Len(errors) |-> ErrorLine(errors[i])], <<"\n">>)
    \o <<"\n">>

\* the message of the error fetchNewJWT throws for result.errors
AuthenticationErrorText(errors) ==
  MsgAuthenticationFailed \o Join(Messages(errors), <<",", " ">>)

\* the error message the retry decision looks at
errorMessage(errors) == ToLowerCase(Join(Messages(errors), <<" ">>))

isUnauthorized(errors) == Includes(errorMessage(errors), NeedleUnauthorized)

----------------------------------------------------------------------------
(* The token's time to live *)

Max(a, b) == IF a >= b THEN a ELSE b

\* Math.floor(Date.now() / 1000)
NowSecondsNotDivided(nowMs) == nowMs

NowSeconds(nowMs) == nowMs \div MsPerSecond

\* the remote service's clock, in whole seconds
RemoteNow(nowMs) == nowMs \div MsPerSecond

ttlSecondsNoFloor(validUntil, now) == validUntil - now - SafetyBufferSeconds

ttlSecondsNoBuffer(validUntil, now) == Max(validUntil - now, MinTtlSeconds)

ttlSeconds(validUntil, now) ==
  Max(validUntil - now - SafetyBufferSeconds, MinTtlSeconds)

----------------------------------------------------------------------------
(* The key/value store kv.app: each entry expires ttl seconds after its set *)

EmptyCache == [k \in {} |-> 0]

NoValue == [jwt |-> ""]

\* kv.app.get: the value, while the entry has not expired
KvGet(store, key, nowMs) ==
  IF key \in DOMAIN store /\ nowMs < store[key].expiresAt
  THEN [hasValue |-> TRUE, value |-> store[key].value]
  ELSE [hasValue |-> FALSE, value |-> NoValue]

\* kv.app.set given the bare token as the value: its .jwt reads as undefined
KvSetBareToken(store, key, value, ttl, nowMs, writer) ==
  (key :> [value |-> [jwt |-> "undefined"], expiresAt |-> nowMs + ttl * MsPerSecond,
           writer |-> writer])
    @@ store

\* kv.app.set; writer is the credentials of the call that wrote the entry,
\* which the store does not hold (kept to tell whose token an entry is)
KvSet(store, key, value, ttl, nowMs, writer) ==
  (key :> [value |-> value, expiresAt |-> nowMs + ttl * MsPerSecond, writer |-> writer])
    @@ store

----------------------------------------------------------------------------
(* The inputs the model draws from *)

mUnauthorized ==
  <<"U", "n", "a", "u", "t", "h", "o", "r", "i", "z", "e", "d">>
mMixed ==
  <<"t", "o", "k", "e", "n", " ", "i", "s", " ", "U", "N", "A", "U", "T", "H", "O", "R", "I", "Z", "E", "D", "!">>
mUn == <<"u", "n">>
mAuthorized == <<"a", "u", "t", "h", "o", "r", "i", "z", "e", "d">>
mNotFound == <<"n", "o", "t", " ", "f", "o", "u", "n", "d">>
mBadKey == <<"b", "a", "d", " ", "k", "e", "y">>
xCode == <<"c", "o", "d", "e">>
x401 == <<"4", "0", "1">>
xHint == <<"h", "i", "n", "t">>
xRelogin == <<"r", "e", "-", "l", "o", "g", "i", "n">>

ErrsUnauthorized == <<Err(mUnauthorized)>>
ErrsMixed ==
  <<Err(mNotFound),
    [message |-> mMixed, extensions |-> ObjExt(<<<<xCode, x401>>, <<xHint, xRelogin>>>>)]>>
ErrsSplit == <<Err(mUn), Err(mAuthorized)>>
ErrsNotFound == <<Err(mNotFound)>>
ErrsBadKey == <<[message |-> mBadKey, extensions |-> StrExt(x401)]>>

Data1 == [stackIds |-> <<"stack-1">>, runIds |-> <<"run-1">>]
Data2 == [stackIds |-> <<"stack-2", "stack-3">>, runIds |-> <<>>]

\* the responses the remote service gives to a query
QueryResponses ==
  { Response(FALSE, <<>>, TRUE, Data1),
    Response(FALSE, <<>>, TRUE, Data2),
    Response(FALSE, <<>>, FALSE, NoData),
    Response(TRUE, <<>>, TRUE, Data1),
    Response(TRUE, ErrsUnauthorized, FALSE, NoData),
    Response(TRUE, ErrsMixed, TRUE, Data1),
    Response(TRUE, ErrsSplit, FALSE, NoData),
    Response(TRUE, ErrsNotFound, TRUE, Data2),
    Response(TRUE, ErrsBadKey, FALSE, NoData) }

\* the tokens the remote service issues
JWTs == {"jwt-1", "jwt-2"}

\* validUntil - now of the tokens the remote service issues, in seconds
ValidOffsets == {400, 361, 360, 50, -10}

\* a login response: result.errors, and data.apiKeyUser's jwt and validUntil
\* (a missing jwt is "", a missing validUntil is 0: both are falsy)
LoginResponse(hasErrors, errors, jwt, validUntil) ==
  [hasErrors |-> hasErrors, errors |-> errors, jwt |-> jwt, validUntil |-> validUntil]

\* the responses the remote service gives to a login at nowMs
LoginResponses(nowMs) ==
  { LoginResponse(FALSE, <<>>, j, RemoteNow(nowMs) + d) : j \in JWTs, d \in ValidOffsets }
  \cup
  { LoginResponse(TRUE, ErrsBadKey, "", 0),
    LoginResponse(TRUE, <<>>, "jwt-1", RemoteNow(nowMs) + 400),
    LoginResponse(FALSE, <<>>, "", RemoteNow(nowMs) + 400),
    LoginResponse(FALSE, <<>>, "jwt-1", 0),
    LoginResponse(FALSE, <<>>, "", 0) }

Config(id, secret, endpoint) ==
  [apiKeyId |-> id, apiKeySecret |-> secret, endpoint |-> endpoint]

\* configurations with the three fields truthy
ValidConfigs ==
  { Config(JsStr("c"), JsStr("s"), JsStr("a_b")),
    Config(JsStr("b_c"), JsStr("s"), JsStr("a")),
    Config(JsStr("a"), JsStr("b"), JsStr("x.example.com")),
    Config(JsStr("a"), JsNum("5"), JsStr("x.example.com")) }

\* configurations with a field absent, empty or otherwise falsy
InvalidConfigs ==
  { Config(JsStr("a"), JsStr("b"), Undefined),
    Config(Undefined, JsStr("s"), JsStr("a")),
    Config(JsStr("c"), Undefined, JsStr("a")),
    Config(JsStr(""), JsStr("s"), JsStr("a")),
    Config(JsStr("c"), JsNum("0"), JsStr("a")),
    Config(JsStr("c"), JsStr("s"), JsNull),
    Config(JsStr("c"), JsBool("false"), JsStr("")),
    Config(Undefined, Undefined, Undefined) }

Configs == ValidConfigs \cup InvalidConfigs

\* the credentials extractCredentials returns for the valid configurations
ValidCredentials == { extractCredentials(cfg).value : cfg \in ValidConfigs }

\* input.event.inputConfig: blueprintId, and inputs (absent, or its entries in
\* key order)
EventInput(blueprintId, hasInputs, entries) ==
  [blueprintId |-> blueprintId,
   inputs |-> [present |-> hasInputs, entries |-> entries]]

EventInputs ==
  { EventInput(JsStr("bp1"), TRUE, << <<"foo", JsStr("bar")>> >>),
    EventInput(JsStr("bp1"), FALSE, <<>>),
    EventInput(JsStr("bp2"), TRUE, << <<"zone", JsStr("x")>>, <<"count", JsNum("1")>> >>) }

\* the invocations of the block: the event's input and the app's configuration
BlockInvocations ==
  { [event |-> e, app |-> cfg] :
      e \in {EventInput(JsStr("bp1"), TRUE, << <<"foo", JsStr("bar")>> >>)},
      cfg \in Configs }
  \cup
  { [event |-> e, app |-> Config(JsStr("a"), JsStr("b"), JsStr("x.example.com"))] :
      e \in EventInputs }
  \cup
  { [event |-> e, app |-> Config(Undefined, JsStr("s"), JsStr("a"))] : e \in EventInputs }

Procs == {"p1", "p2"}

----------------------------------------------------------------------------
(* The block "Create stack from blueprint" *)

\* mapInputsToGraphQLVariables(inputConfig, input.event.inputConfig): each
\* input under its graphqlFieldKey
mapInputsToGraphQLVariables(eventInput) ==
  [id |-> eventInput.blueprintId, templateInputs |-> eventInput.inputs]

\* each pair's value taken from the key
templateInputsValueFromKey(mappedInputs) ==
  IF mappedInputs.templateInputs.present
  THEN [i \in 1..Len(mappedInputs.templateInputs.entries) |->
          [id |-> mappedInputs.templateInputs.entries[i][1],
           value |-> mappedInputs.templateInputs.entries[i][1]]]
  ELSE <<>>

\* the inputs object as an array of {id, value} pairs
templateInputs(mappedInputs) ==
  IF mappedInputs.templateInputs.present
  THEN [i \in 1..Len(mappedInputs.templateInputs.entries) |->
          [id |-> mappedInputs.templateInputs.entries[i][1],
           value |-> ToStr(mappedInputs.templateInputs.entries[i][2])]]
  ELSE <<>>

createVariables(eventInput) ==
  [id |-> mapInputsToGraphQLVariables(eventInput).id,
   input |-> [templateInputs |-> templateInputs(mapInputsToGraphQLVariables(eventInput))]]

NoVariables == [id |-> Undefined, input |-> [templateInputs |-> <<>>]]

----------------------------------------------------------------------------
(* A call: where it stands, its local variables, and what it has done *)

\* the arguments of the kv.app.set in flight, with refreshSpaceliftJWT's locals
NoSet == [key |-> "", jwt |-> "", ttl |-> 0, now |-> 0, validUntil |-> 0]

IdleCall ==
  [pc |-> "idle", op |-> "none", appConfig |-> NoCredentials,
   credentials |-> NoCredentials, variables |-> NoVariables,
   cacheKey |-> "", jwt |-> "", retried |-> FALSE,
   set |-> NoSet, result |-> NoResponse, error |-> NoError,
   \* what the call has done so far
   got |-> "none", nGet |-> 0, nLogin |-> 0, nSet |-> 0, nEmit |-> 0,
   sent |-> <<>>, issued |-> <<>>, nResponses |-> 0, first |-> NoResponse]

Throw(c, message) == [c EXCEPT !.pc = "failed", !.error = message]

\* getSpaceliftJWT up to its await of kv.app.get
BeginGet(c) ==
  [c EXCEPT !.pc = "kvGet", !.cacheKey = getCacheKey(c.credentials), !.nGet = @ + 1]

\* refreshSpaceliftJWT up to fetchNewJWT's await of fetch
BeginRefresh(c) ==
  [c EXCEPT !.pc = "login", !.cacheKey = getCacheKey(c.credentials), !.nLogin = @ + 1]

\* makeRequest up to its await of fetch
makeRequest(c, token) ==
  [c EXCEPT !.pc = "request", !.sent = Append(@, token)]

\* the caller of getSpaceliftJWT or refreshSpaceliftJWT goes on with the token
WithToken(c, token) ==
  IF c.op = "onEvent"
  THEN makeRequest([c EXCEPT !.jwt = token], token)
  ELSE [c EXCEPT !.pc = "done", !.jwt = token]

\* whether executeSpaceliftQuery refreshes the token and sends the query again
ShouldRetryAgain(c, result) == isUnauthorized(result.errors)

ShouldRetry(c, result) == ~c.retried /\ isUnauthorized(result.errors)

\* the jwt executeSpaceliftQuery holds once refreshSpaceliftJWT has returned
retryJwtStale(c, refreshed) == c.jwt

retryJwt(c, refreshed) == refreshed

\* whether fetchNewJWT finds the login's payload without jwt or validUntil
jwtMissingOnlyJwt(response) == response.jwt = ""

jwtMissingOnlyValidUntil(response) == response.validUntil = 0

jwtMissing(response) == response.jwt = "" \/ response.validUntil = 0

\* whether executeSpaceliftQuery finds the response without data
dataMissingNever(result) == FALSE

dataMissing(result) == ~result.hasData

\* the event onEvent emits for the data executeSpaceliftQuery returned
emittedEventSwapped(data) == [stackIds |-> data.runIds, runIds |-> data.stackIds]

emittedEvent(data) == [stackIds |-> data.stackIds, runIds |-> data.runIds]

\* whether getSpaceliftJWT takes the cached token
cachedValueIgnored(cachedToken) == FALSE

cachedValuePresent(cachedToken) == cachedToken.hasValue

----------------------------------------------------------------------------
(* The state machine *)

\* the cache at the start: empty, or as an earlier refreshSpaceliftJWT with
\* some credentials left it at StartMs, with the least ttl
InitCaches ==
  {EmptyCache}
  \cup { KvSet(EmptyCache, getCacheKey(cr), [jwt |-> "jwt-1"], MinTtlSeconds, StartMs, cr) :
           cr \in ValidCredentials }

Init ==
  /\ calls = [p \in Procs |-> IdleCall]
  /\ cache \in InitCaches
  /\ clock = StartMs
  /\ ticks = 0
  /\ events = <<>>

\* the block's onEvent, up to the first await
StartOnEvent(p, invocation) ==
  /\ calls[p].pc = "idle"
  /\ LET c == [calls[p] EXCEPT !.op = "onEvent",
                               !.appConfig = invocation.app,
                               !.variables = createVariables(invocation.event)]
         ex == extractCredentials(invocation.app)
     IN  calls' = [calls EXCEPT ![p] =
                     IF ex.threw THEN Throw(c, ex.error)
                     ELSE BeginGet([c EXCEPT !.credentials = ex.value])]
  /\ UNCHANGED <<cache, clock, ticks, events>>

\* getSpaceliftJWT called on its own
StartGetJWT(p, credentials) ==
  /\ calls[p].pc = "idle"
  /\ calls' = [calls EXCEPT ![p] =
                 BeginGet([@ EXCEPT !.op = "getSpaceliftJWT", !.credentials = credentials])]
  /\ UNCHANGED <<cache, clock, ticks, events>>

\* refreshSpaceliftJWT called on its own
StartRefresh(p, credentials) ==
  /\ calls[p].pc = "idle"
  /\ calls' = [calls EXCEPT ![p] =
                 BeginRefresh([@ EXCEPT !.op = "refreshSpaceliftJWT",
                                        !.credentials = credentials])]
  /\ UNCHANGED <<cache, clock, ticks, events>>

\* kv.app.get returns to getSpaceliftJWT
KvGetReturns(p) ==
  /\ calls[p].pc = "kvGet"
  /\ LET c == calls[p]
         cachedToken == KvGet(cache, c.cacheKey, clock)
     IN  calls' = [calls EXCEPT ![p] =
                     IF cachedValuePresent(cachedToken)
                     THEN WithToken([c EXCEPT !.got = "hit"], cachedToken.value.jwt)
                     ELSE BeginRefresh([c EXCEPT !.got = "miss"])]
  /\ UNCHANGED <<cache, clock, ticks, events>>

\* the login's response reaches fetchNewJWT; refreshSpaceliftJWT goes on to
\* its await of kv.app.set
LoginResponds(p, response) ==
  /\ calls[p].pc = "login"
  /\ LET c == calls[p]
         now == NowSeconds(clock)
     IN  calls' = [calls EXCEPT ![p] =
           IF response.hasErrors
           THEN Throw(c, AuthenticationErrorText(response.errors))
           ELSE IF jwtMissing(response)
           THEN Throw(c, MsgNoJwt)
           ELSE [c EXCEPT !.pc = "kvSet",
                          !.set = [key |-> c.cacheKey, jwt |-> response.jwt,
                                   ttl |-> ttlSeconds(response.validUntil, now),
                                   now |-> now, validUntil |-> response.validUntil],
                          !.nSet = @ + 1,
                          !.issued = Append(@, response.jwt)]]
  /\ UNCHANGED <<cache, clock, ticks, events>>

\* kv.app.set writes the entry and returns; refreshSpaceliftJWT returns the jwt
KvSetReturns(p) ==
  /\ calls[p].pc = "kvSet"
  /\ LET c == calls[p]
     IN  /\ cache' = KvSet(cache, c.set.key, [jwt |-> c.set.jwt], c.set.ttl, clock,
                           c.credentials)
         /\ calls' = [calls EXCEPT ![p] =
                        WithToken([c EXCEPT !.set = NoSet],
                                  IF c.retried THEN retryJwt(c, c.set.jwt) ELSE c.set.jwt)]
  /\ UNCHANGED <<clock, ticks, events>>

\* the query's response reaches executeSpaceliftQuery
QueryResponds(p, response) ==
  /\ calls[p].pc = "request"
  /\ LET c == [calls[p] EXCEPT !.result = response,
                               !.nResponses = @ + 1,
                               !.first = IF calls[p].nResponses = 0 THEN response ELSE @]
         emits == ~response.hasErrors /\ ~dataMissing(response)
     IN  /\ calls' = [calls EXCEPT ![p] =
               IF response.hasErrors
               THEN IF ShouldRetry(calls[p], response)
                    THEN BeginRefresh([c EXCEPT !.retried = TRUE])
                    ELSE Throw(c, GraphQLErrorText(response.errors))
               ELSE IF dataMissing(response)
               THEN Throw(c, MsgNoData)
               ELSE [c EXCEPT !.pc = "emit", !.nEmit = @ + 1]]
         /\ events' = IF emits
                      THEN Append(events, emittedEvent(response.data))
                      ELSE events
  /\ UNCHANGED <<cache, clock, ticks>>

\* events.emit returns and onEvent ends
EmitReturns(p) ==
  /\ calls[p].pc = "emit"
  /\ calls' = [calls EXCEPT ![p].pc = "done"]
  /\ UNCHANGED <<cache, clock, ticks, events>>

\* time passes
Tick ==
  /\ ticks < MaxTicks
  /\ ticks' = ticks + 1
  /\ clock' = clock + TickMs
  /\ UNCHANGED <<calls, cache, events>>

\* the calls that run one at a time
SeqProcs == {"p1"}

Step(p) ==
  \/ \E invocation \in BlockInvocations : StartOnEvent(p, invocation)
  \/ \E credentials \in ValidCredentials : StartGetJWT(p, credentials)
  \/ \E credentials \in ValidCredentials : StartRefresh(p, credentials)
  \/ KvGetReturns(p)
  \/ \E response \in LoginResponses(clock) : LoginResponds(p, response)
  \/ KvSetReturns(p)
  \/ \E response \in QueryResponses : QueryResponds(p, response)
  \/ EmitReturns(p)

Next == (\E p \in SeqProcs : Step(p)) \/ Tick

Spec == Init /\ [][Next]_vars

\* a cache call or a network call of p returns
Returns(p) ==
  \/ KvGetReturns(p)
  \/ \E response \in LoginResponses(clock) : LoginResponds(p, response)
  \/ KvSetReturns(p)
  \/ \E response \in QueryResponses : QueryResponds(p, response)

\* every cache call and every network call returns in the end
FairSpec == Spec /\ \A p \in SeqProcs : WF_vars(Returns(p))

----------------------------------------------------------------------------
(* Overlapping calls: every call of Procs runs, and the calls interleave at
   every await *)

\* the credentials of the overlapping calls: they differ in apiKeySecret only
ConcCredentials ==
  { extractCredentials(Config(JsStr("a"), secret, JsStr("x.example.com"))).value :
      secret \in {JsStr("b"), JsNum("5")} }

ConcInvocations ==
  { [event |-> EventInput(JsStr("bp1"), TRUE, << <<"foo", JsStr("bar")>> >>),
     app |-> Config(cr.apiKeyId, cr.apiKeySecret, cr.endpoint)] : cr \in ConcCredentials }

\* the responses the remote service gives to the overlapping calls' logins
ConcLoginResponses(nowMs) ==
  { LoginResponse(FALSE, <<>>, j, RemoteNow(nowMs) + d) : j \in JWTs, d \in {400, 50} }
  \cup
  { LoginResponse(TRUE, ErrsBadKey, "", 0),
    LoginResponse(FALSE, <<>>, "", RemoteNow(nowMs) + 400) }

\* and to their queries
ConcQueryResponses ==
  { Response(FALSE, <<>>, TRUE, Data1),
    Response(FALSE, <<>>, FALSE, NoData),
    Response(TRUE, ErrsUnauthorized, FALSE, NoData),
    Response(TRUE, ErrsNotFound, TRUE, Data2) }

ConcInit ==
  /\ calls = [p \in Procs |-> IdleCall]
  /\ cache = EmptyCache
  /\ clock = StartMs
  /\ ticks = 0
  /\ events = <<>>

ConcStep(p) ==
  \/ \E invocation \in ConcInvocations : StartOnEvent(p, invocation)
  \/ \E credentials \in ConcCredentials : StartGetJWT(p, credentials)
  \/ \E credentials \in ConcCredentials : StartRefresh(p, credentials)
  \/ KvGetReturns(p)
  \/ \E response \in ConcLoginResponses(clock) : LoginResponds(p, response)
  \/ KvSetReturns(p)
  \/ \E response \in ConcQueryResponses : QueryResponds(p, response)
  \/ EmitReturns(p)

ConcNext == (\E p \in Procs : ConcStep(p)) \/ Tick

ConcSpec == ConcInit /\ [][ConcNext]_vars

----------------------------------------------------------------------------
(* What the claims speak of *)

\* the call has ended, returning or throwing
Ended(c) == c.pc \in {"done", "failed"}

\* the logins and cache writes of the call's getSpaceliftJWT: one each at
\* most, and only after a miss
GetLogins(c) == IF c.got = "miss" THEN 1 ELSE 0
GetIssued(c) == IF c.got = "miss" /\ Len(c.issued) > 0 THEN 1 ELSE 0

\* the first response has come and carries an errors list
FirstHasErrors(c) == c.nResponses >= 1 /\ c.first.hasErrors

\* some message holds "unauthorized" in some letter case
MatchesUnauthorized(errors) ==
  \E i \in 1..Len(errors) :
    \E k \in 0..(Len(errors[i].message) - Len(NeedleUnauthorized)) :
      \A j \in 1..Len(NeedleUnauthorized) :
        ToLowerChar(errors[i].message[k + j]) = NeedleUnauthorized[j]

\* the login of the retry's refresh has returned a token
RetryLoginOk(c) == c.retried /\ Len(c.issued) = GetIssued(c) + 1

----------------------------------------------------------------------------
(* C1: a run of executeSpaceliftQuery sends the query again at most once, and
   only when the space-joined, lower-cased messages of the first response's
   errors contain "unauthorized"; first errors that do not match make the call
   fail at once, with no token refresh and no further request. *)
TheoremC1 ==
  \A p \in Procs :
    LET c == calls[p]
        matches == Includes(ToLowerCase(Join(Messages(c.first.errors), <<" ">>)),
                            NeedleUnauthorized)
    IN  /\ Len(c.sent) <= 2
        /\ Len(c.sent) = 2 => FirstHasErrors(c) /\ matches
        /\ c.retried => FirstHasErrors(c) /\ matches
        /\ FirstHasErrors(c) /\ ~matches =>
             /\ c.pc = "failed"
             /\ c.error = GraphQLErrorText(c.first.errors)
             /\ Len(c.sent) = 1
             /\ c.nLogin = GetLogins(c)
             /\ c.nSet = GetIssued(c)

\* the retried request was sent and the call has ended
WitnessC1 ==
  \E p \in Procs : Len(calls[p].sent) = 2 /\ Ended(calls[p])

(* C2 as stated: after a first response with a message matching "unauthorized"
   in any letter case the call performs one refresh (one login, one cache
   write) and then one retried request, carrying the jwt of that refresh. *)
OriginalC2 ==
  \A p \in Procs :
    LET c == calls[p]
    IN  FirstHasErrors(c) /\ MatchesUnauthorized(c.first.errors) /\ Ended(c) =>
          /\ c.nLogin = GetLogins(c) + 1
          /\ c.nSet = GetIssued(c) + 1
          /\ Len(c.sent) = 2
          /\ c.sent[2] = c.issued[Len(c.issued)]

(* C2, amended: after such a first response the call performs one refresh with
   one login; when that login succeeds, one cache write and then one retried
   request carrying the jwt that login returned; when it fails, no cache write
   and no retried request; a retried response that is unauthorized again
   brings no second refresh and no third request. *)
TheoremC2 ==
  \A p \in Procs :
    LET c == calls[p]
    IN  FirstHasErrors(c) /\ MatchesUnauthorized(c.first.errors) =>
          /\ c.retried
          /\ c.nLogin = GetLogins(c) + 1
          /\ Len(c.sent) <= 2
          /\ IF RetryLoginOk(c)
             THEN /\ c.nSet = GetIssued(c) + 1
                  /\ IF c.pc = "kvSet"
                     THEN Len(c.sent) = 1
                     ELSE Len(c.sent) = 2 /\ c.sent[2] = c.issued[Len(c.issued)]
             ELSE /\ c.nSet = GetIssued(c)
                  /\ Len(c.sent) = 1
                  /\ c.pc \in {"login", "failed"}

\* the retried response was unauthorized again and the call has failed
WitnessC2 ==
  \E p \in Procs :
    LET c == calls[p]
    IN  /\ c.nResponses = 2
        /\ MatchesUnauthorized(c.first.errors)
        /\ c.result.hasErrors /\ MatchesUnauthorized(c.result.errors)
        /\ c.sent[1] # c.sent[2]
        /\ c.pc = "failed"

(* C3 as stated: when the retried response also has errors, the call fails
   with a GraphQL error whose text contains every message of the first
   response's errors. *)
OriginalC3 ==
  \A p \in Procs :
    LET c == calls[p]
    IN  c.nResponses = 2 /\ c.result.hasErrors /\ Len(c.result.errors) > 0 =>
          /\ c.pc = "failed"
          /\ SubSeq(c.error, 1, Len(MsgGraphQLError)) = MsgGraphQLError
          /\ \A i \in 1..Len(c.first.errors) :
               Includes(c.error, c.first.errors[i].message)

(* C3, amended: when the retried response also has errors, the call fails
   with a GraphQL error whose text contains every message of the retried
   response's errors. *)
TheoremC3 ==
  \A p \in Procs :
    LET c == calls[p]
    IN  c.nResponses = 2 /\ c.result.hasErrors =>
          /\ c.pc = "failed"
          /\ SubSeq(c.error, 1, Len(MsgGraphQLError)) = MsgGraphQLError
          /\ \A i \in 1..Len(c.result.errors) :
               Includes(c.error, c.result.errors[i].message)

\* the retried response had two errors, other than the first response's
WitnessC3 ==
  \E p \in Procs :
    LET c == calls[p]
    IN  /\ c.nResponses = 2
        /\ Len(c.result.errors) = 2
        /\ c.result.errors # c.first.errors
        /\ c.pc = "failed"

(* C4 as stated: when getSpaceliftJWT finds no readable entry under the key,
   the call makes one login call and one cache write under that key with
   ttl >= 60, whatever the login responds. *)
OriginalC4 ==
  \A p \in Procs :
    LET c == calls[p]
    IN  c.got = "miss" /\ ~c.retried /\ c.pc # "login" =>
          /\ c.nLogin = 1
          /\ c.nSet = 1
          /\ c.pc = "kvSet" =>
               c.set.key = getCacheKey(c.credentials) /\ c.set.ttl >= 60

(* C4, amended: when getSpaceliftJWT finds no readable entry under the key, the
   call makes one login call, whatever the login responds; when the login
   succeeds it makes one cache write, under that key and with ttl >= 60, and
   when the login fails it makes none. *)
TheoremC4 ==
  \A p \in Procs :
    LET c == calls[p]
    IN  c.got = "miss" /\ ~c.retried =>
          /\ c.nLogin = 1
          /\ c.nSet = Len(c.issued)
          /\ c.nSet <= 1
          /\ c.pc = "login" => c.nSet = 0
          /\ c.pc = "failed" /\ c.nResponses = 0 => c.nSet = 0
          /\ c.pc \in {"kvSet", "request", "emit", "done"} => c.nSet = 1
          /\ c.pc = "kvSet" =>
               c.set.key = getCacheKey(c.credentials) /\ c.set.ttl >= 60

\* getSpaceliftJWT, after a miss, has logged in, written and returned
WitnessC4 ==
  \E p \in Procs :
    LET c == calls[p]
    IN  /\ c.op = "getSpaceliftJWT" /\ c.got = "miss" /\ c.pc = "done"
        /\ c.nLogin = 1 /\ c.nSet = 1
        /\ c.cacheKey \in DOMAIN cache /\ cache[c.cacheKey].value.jwt = c.jwt

(* C5: when the cache holds an unexpired entry under the credentials' key,
   getSpaceliftJWT returns the jwt of that entry, makes no login call and no
   cache write, and leaves the cache as it is; an entry whose TTL has elapsed
   is handled as an absent one is, by a refresh. *)
TheoremC5 ==
  [][\A p \in Procs :
       LET c == calls[p]
           d == calls'[p]
           key == getCacheKey(c.credentials)
           readable == key \in DOMAIN cache /\ clock < cache[key].expiresAt
       IN  c.pc = "kvGet" /\ d.pc # "kvGet" =>
             /\ cache' = cache
             /\ IF readable
                THEN /\ d.got = "hit"
                     /\ d.jwt = cache[key].value.jwt
                     /\ d.nLogin = c.nLogin /\ d.nSet = c.nSet
                     /\ IF c.op = "getSpaceliftJWT"
                        THEN d.pc = "done"
                        ELSE d.pc = "request" /\ d.sent = <<cache[key].value.jwt>>
                ELSE /\ d.got = "miss"
                     /\ d.pc = "login"
                     /\ d.nLogin = c.nLogin + 1]_vars

\* getSpaceliftJWT has returned the cached jwt
WitnessC5 ==
  \E p \in Procs :
    LET c == calls[p]
    IN  /\ c.op = "getSpaceliftJWT" /\ c.got = "hit" /\ c.pc = "done"
        /\ c.jwt = cache[c.cacheKey].value.jwt
        /\ c.nLogin = 0 /\ c.nSet = 0

(* C6 as stated: every entry refreshSpaceliftJWT writes has a lifetime of at
   least 60 seconds and stops being readable at least 300 seconds before the
   validUntil reported for its token, for every validUntil. *)
OriginalC6 ==
  \A p \in Procs :
    LET c == calls[p]
    IN  c.pc = "kvSet" =>
          /\ c.set.ttl >= 60
          /\ c.set.now + c.set.ttl + 300 <= c.set.validUntil

(* C6, amended: every entry refreshSpaceliftJWT writes is written with a ttl
   of at least 60 seconds and lives that long in the store; when
   validUntil - now >= 360 the ttl is validUntil - now - 300, the 300-second
   margin counted from the now the refresh read; when validUntil - now < 360
   the 60-second floor takes over and the ttl is 60. *)
TheoremC6 ==
  [][\A p \in Procs :
       LET c == calls[p]
           d == calls'[p]
       IN  /\ c.pc = "login" /\ d.pc = "kvSet" =>
                /\ d.set.ttl >= 60
                /\ d.set.validUntil - d.set.now >= 360 =>
                     d.set.now + d.set.ttl + 300 = d.set.validUntil
                /\ d.set.validUntil - d.set.now < 360 => d.set.ttl = 60
           /\ c.pc = "kvSet" /\ d.pc # "kvSet" =>
                /\ c.set.key \in DOMAIN cache'
                /\ cache'[c.set.key].value = [jwt |-> c.set.jwt]
                /\ cache'[c.set.key].expiresAt = clock + c.set.ttl * 1000
                /\ cache'[c.set.key].expiresAt - clock >= 60 * 1000]_vars

\* refreshSpaceliftJWT has written an entry that lives 100 seconds
WitnessC6 ==
  \E p \in Procs :
    LET c == calls[p]
    IN  /\ c.op = "refreshSpaceliftJWT" /\ c.pc = "done" /\ c.nSet = 1
        /\ cache[c.cacheKey].value.jwt = c.jwt
        /\ cache[c.cacheKey].expiresAt = clock + 100 * 1000

(* C7: the ttl refreshSpaceliftJWT passes to the cache is
   max(validUntil - now - 300, 60), now being Date.now() in whole seconds:
   100 for validUntil = now + 400, 60 for validUntil = now + 50 and for every
   validUntil <= now + 360. *)
TheoremC7 ==
  [][\A p \in Procs :
       LET c == calls[p]
           d == calls'[p]
           now == clock \div 1000
           validUntil == d.set.validUntil
       IN  c.pc = "login" /\ d.pc = "kvSet" =>
             /\ d.set.ttl = IF validUntil - now - 300 >= 60
                            THEN validUntil - now - 300 ELSE 60
             /\ validUntil = now + 400 => d.set.ttl = 100
             /\ validUntil = now + 50 => d.set.ttl = 60
             /\ validUntil <= now + 360 => d.set.ttl = 60]_vars

\* a token valid for 400 seconds is about to be written with ttl 100
WitnessC7 ==
  \E p \in Procs :
    LET c == calls[p]
    IN  /\ c.pc = "kvSet"
        /\ c.set.validUntil = (clock \div 1000) + 400
        /\ c.set.ttl = 100

(* C8: getCacheKey gives the same pair (endpoint, apiKeyId) the same key, and
   credentials that differ in endpoint or in apiKeyId different keys: the
   writer of the entry under a call's key has the call's endpoint and
   apiKeyId. *)
OriginalC8 ==
  \A p \in Procs : \A k \in DOMAIN cache :
    LET c == calls[p].credentials
        w == cache[k].writer
    IN  /\ getCacheKey(w) = k
        /\ calls[p].cacheKey # "" => calls[p].cacheKey = getCacheKey(c)
        /\ calls[p].cacheKey = k => c.endpoint = w.endpoint /\ c.apiKeyId = w.apiKeyId

\* each of the three fields of the configuration is present and truthy
AllThreeTruthy(appConfig) ==
  \A f \in {"apiKeyId", "apiKeySecret", "endpoint"} :
    /\ appConfig[f] # Undefined
    /\ appConfig[f] \notin {JsNull, JsStr(""), JsNum("0"), JsNum("NaN"), JsBool("false")}

(* C9: extractCredentials returns credentials exactly when apiKeyId,
   apiKeySecret and endpoint are all present and truthy, and then those three
   fields as they are; otherwise it throws the missing-credentials error. *)
TheoremC9 ==
  \A p \in Procs :
    LET c == calls[p]
    IN  c.op = "onEvent" =>
          IF AllThreeTruthy(c.appConfig)
          THEN /\ c.credentials = c.appConfig
               /\ c.error # MsgMissingCredentials
               /\ c.nGet = 1
          ELSE /\ c.credentials = NoCredentials
               /\ c.pc = "failed"
               /\ c.error = MsgMissingCredentials

\* the three fields of a full configuration have come back as they were
WitnessC9 ==
  \E p \in Procs :
    LET c == calls[p]
    IN  /\ c.op = "onEvent"
        /\ c.appConfig = Config(JsStr("a"), JsStr("b"), JsStr("x.example.com"))
        /\ c.credentials = c.appConfig
        /\ c.pc = "kvGet"

(* C10: a block invocation whose configuration lacks one of the three
   credential fields fails with the configuration error before any cache
   read or write, login call, query request or event emission. *)
TheoremC10 ==
  \A p \in Procs :
    LET c == calls[p]
    IN  c.op = "onEvent" /\ ~AllThreeTruthy(c.appConfig) =>
          /\ c.pc = "failed"
          /\ c.error = MsgMissingCredentials
          /\ c.nGet = 0 /\ c.nLogin = 0 /\ c.nSet = 0 /\ c.nEmit = 0
          /\ c.sent = <<>> /\ c.nResponses = 0
          /\ events = <<>>
          /\ cache \in InitCaches

\* an invocation without endpoint has failed
WitnessC10 ==
  \E p \in Procs :
    LET c == calls[p]
    IN  /\ c.op = "onEvent"
        /\ c.appConfig = Config(JsStr("a"), JsStr("b"), Undefined)
        /\ c.pc = "failed"
        /\ c.error = MsgMissingCredentials

\* the call has returned data: onEvent goes on to emit it
Returned(c, data) ==
  /\ c.pc \in {"emit", "done"}
  /\ c.error = NoError
  /\ c.result.hasData /\ c.result.data = data

(* C11: when the last response executeSpaceliftQuery receives has data present
   and no errors, the call returns exactly that response's data; a response
   counts as having errors only when its errors list is non-empty, so data
   with an empty errors list is returned as a success. *)
OriginalC11 ==
  \A p \in Procs :
    LET c == calls[p]
    IN  /\ c.op = "onEvent" /\ c.nResponses >= 1 /\ c.pc # "login"
        /\ c.result.hasData
        /\ ~c.result.hasErrors \/ Len(c.result.errors) = 0
        => /\ Returned(c, c.result.data)
           /\ events = <<[stackIds |-> c.result.data.stackIds,
                          runIds |-> c.result.data.runIds]>>

\* the refreshes the call has begun on the retry path
RetryLogins(c) == IF c.retried THEN 1 ELSE 0

(* C12: a response with neither errors nor data makes executeSpaceliftQuery
   fail with the error "No data returned from Spacelift API", on the first
   request as on the retried one; the failure brings no token refresh and no
   further request. *)
TheoremC12 ==
  \A p \in Procs :
    LET c == calls[p]
    IN  c.nResponses >= 1 /\ ~c.result.hasErrors /\ ~c.result.hasData =>
          /\ c.pc = "failed"
          /\ c.error = <<"N", "o", " ", "d", "a", "t", "a", " ", "r", "e", "t", "u", "r",
                         "n", "e", "d", " ", "f", "r", "o", "m", " ", "S", "p", "a", "c",
                         "e", "l", "i", "f", "t", " ", "A", "P", "I">>
          /\ Len(c.sent) = c.nResponses
          /\ c.nLogin = GetLogins(c) + RetryLogins(c)
          /\ c.retried <=> c.nResponses = 2
          /\ c.nEmit = 0 /\ events = <<>>

\* the retried response had neither errors nor data, and the call has failed
WitnessC12 ==
  \E p \in Procs :
    LET c == calls[p]
    IN  /\ c.nResponses = 2
        /\ ~c.result.hasErrors /\ ~c.result.hasData
        /\ c.pc = "failed" /\ c.error = MsgNoData

\* the login's response has errors, or lacks jwt or validUntil
LoginFailed(response) ==
  response.hasErrors \/ response.jwt = "" \/ response.validUntil = 0

(* C13: when a login returns errors or a payload without jwt or validUntil,
   the login is not repeated, nothing is written (the cache, a stale entry
   under the key included, stays as it was), and the call halts with that
   failure, sending no query request after it; so on the first
   getSpaceliftJWT after a cache miss as on the refresh of the retry. *)
TheoremC13 ==
  [][\A p \in Procs :
       LET c == calls[p]
           d == calls'[p]
       IN  /\ \A response \in LoginResponses(clock) :
                LoginResponds(p, response) /\ LoginFailed(response) =>
                  /\ cache' = cache
                  /\ d.pc = "failed"
                  /\ d.error = IF response.hasErrors
                               THEN MsgAuthenticationFailed
                                      \o Join(Messages(response.errors), <<",", " ">>)
                               ELSE MsgNoJwt
                  /\ d.nLogin = c.nLogin /\ d.nSet = c.nSet /\ d.nGet = c.nGet
                  /\ d.sent = c.sent /\ Len(d.sent) = d.nResponses
                  /\ d.nEmit = 0 /\ events' = events
           /\ c.pc = "failed" => d = c /\ cache' = cache /\ events' = events]_vars

\* the login of the retry's refresh has failed, and the entry whose token the
\* first request carried is still in the cache
WitnessC13 ==
  \E p \in Procs :
    LET c == calls[p]
    IN  /\ c.op = "onEvent" /\ c.got = "hit" /\ c.retried
        /\ c.pc = "failed" /\ c.error = MsgNoJwt
        /\ c.nLogin = 1 /\ c.nSet = 0 /\ Len(c.sent) = 1
        /\ c.cacheKey \in DOMAIN cache
        /\ cache[c.cacheKey].value.jwt = c.sent[1]

\* the tokens the logins of the calls have returned so far
IssuedTokens ==
  UNION { { calls[p].issued[i] : i \in 1..Len(calls[p].issued) } : p \in Procs }

\* the errors a failed login ends a call with
IsLoginError(error) ==
  \/ error = MsgNoJwt
  \/ /\ Len(error) >= Len(MsgAuthenticationFailed)
     /\ SubSeq(error, 1, Len(MsgAuthenticationFailed)) = MsgAuthenticationFailed

\* what executeSpaceliftQuery, running alone, makes of the n query responses
\* it has received, first and last: the data it returns, the error it throws,
\* or (kind "login") the error of the login that kept it from going on
OutcomeAlone(n, first, last) ==
  LET judged(r) ==
        IF r.hasErrors
        THEN [kind |-> "error", error |-> GraphQLErrorText(r.errors), data |-> NoData]
        ELSE IF ~r.hasData
        THEN [kind |-> "error", error |-> MsgNoData, data |-> NoData]
        ELSE [kind |-> "data", error |-> NoError, data |-> r.data]
      login == [kind |-> "login", error |-> NoError, data |-> NoData]
  IN  IF n = 0 THEN login
      ELSE IF first.hasErrors /\ isUnauthorized(first.errors)
      THEN IF n = 1 THEN login ELSE judged(last)
      ELSE judged(first)

\* every call is an executeSpaceliftQuery, all with the same credentials
SameCredentialsQueries ==
  \A p, q \in Procs :
    /\ calls[p].op = "onEvent"
    /\ calls[p].credentials = calls[q].credentials

(* C14: overlapping executeSpaceliftQuery calls with the same credentials,
   interleaved at every await: each call sends only tokens a login issued for
   those credentials; each call ends as it would have running alone against
   the responses it received; once all calls have ended the entry under the
   key is absent or holds the jwt one of the logins issued; the calls do
   nothing more than a call alone does, redundant refreshes apart. *)
TheoremC14 ==
  SameCredentialsQueries =>
    /\ \A p \in Procs :
         LET c == calls[p]
             o == OutcomeAlone(c.nResponses, c.first, c.result)
         IN  /\ \A i \in 1..Len(c.sent) : c.sent[i] \in IssuedTokens
             /\ c.nGet = 1 /\ c.nLogin <= 2 /\ c.nSet <= 2 /\ Len(c.sent) <= 2
             /\ c.nLogin = GetLogins(c) + RetryLogins(c)
             /\ Ended(c) =>
                  /\ o.kind = "data" =>
                       Returned(c, o.data) /\ \E i \in 1..Len(events) : events[i] = o.data
                  /\ o.kind = "error" => c.pc = "failed" /\ c.error = o.error
                  /\ o.kind = "login" =>
                       /\ c.pc = "failed" /\ IsLoginError(c.error)
                       /\ c.nLogin = Len(c.issued) + 1
    /\ Len(events) = Cardinality({p \in Procs : calls[p].nEmit = 1})
    /\ \A k \in DOMAIN cache :
         /\ \A p \in Procs : k = getCacheKey(calls[p].credentials)
         /\ cache[k].value.jwt \in IssuedTokens

\* two calls found the entry missing, both logged in and wrote, and the entry
\* holds the token of the one that wrote last; both have returned data
WitnessC14 ==
  /\ SameCredentialsQueries
  /\ \A p \in Procs :
       /\ calls[p].got = "miss" /\ calls[p].nSet = 1 /\ calls[p].pc = "done"
       /\ calls[p].error = NoError
  /\ calls["p1"].issued # calls["p2"].issued
  /\ \E k \in DOMAIN cache : cache[k].value.jwt = calls["p1"].issued[1]
  /\ Len(events) = 2

\* the two credentials name the same (endpoint, apiKeyId)
SameIdentity(cr1, cr2) ==
  cr1.endpoint = cr2.endpoint /\ cr1.apiKeyId = cr2.apiKeyId

(* C15: an operation run with credentials c reads and writes only the cache
   entry under getCacheKey(c): every other entry stays as it is and no entry
   is deleted; so calls whose credentials differ in (endpoint, apiKeyId)
   never read or overwrite each other's cached token. *)
OriginalC15 ==
  [][\A p \in Procs :
       LET c == calls[p]
           d == calls'[p]
           key == getCacheKey(c.credentials)
       IN  d # c =>
             /\ DOMAIN cache \subseteq DOMAIN cache'
             /\ \A k \in DOMAIN cache : k # key => cache'[k] = cache[k]
             /\ \A k \in DOMAIN cache' : k # key => k \in DOMAIN cache
             /\ c.pc = "kvGet" /\ d.got = "hit" =>
                  SameIdentity(cache[key].writer, c.credentials)
             /\ c.pc = "kvSet" /\ key \in DOMAIN cache =>
                  SameIdentity(cache[key].writer, c.credentials)]_vars

\* String(value), for the values the events carry
StringOf(v) ==
  CASE v[1] = "undefined" -> "undefined"
    [] v[1] = "null" -> "null"
    [] OTHER -> v[2]

(* C16: the block builds the variables {id: blueprintId, input:
   {templateInputs: L}}, L holding one {id, value} pair per key of inputs, in
   key order, the value as a string, and L empty when inputs is absent;
   {blueprintId: "bp1", inputs: {foo: "bar"}} gives
   {id: "bp1", input: {templateInputs: [{id: "foo", value: "bar"}]}}. *)
TheoremC16 ==
  [][\A p \in Procs : \A invocation \in BlockInvocations :
       StartOnEvent(p, invocation) =>
         LET v == calls'[p].variables
             e == invocation.event
             L == v.input.templateInputs
         IN  /\ DOMAIN v = {"id", "input"}
             /\ DOMAIN v.input = {"templateInputs"}
             /\ v.id = e.blueprintId
             /\ IF e.inputs.present
                THEN /\ Len(L) = Len(e.inputs.entries)
                     /\ \A i \in 1..Len(L) :
                          L[i] = [id |-> e.inputs.entries[i][1],
                                  value |-> StringOf(e.inputs.entries[i][2])]
                ELSE L = <<>>
             /\ e = EventInput(JsStr("bp1"), TRUE, << <<"foo", JsStr("bar")>> >>) =>
                  v = [id |-> JsStr("bp1"),
                       input |-> [templateInputs |-> <<[id |-> "foo", value |-> "bar"]>>]]]_vars

\* the block has built the variables of two inputs, one of them a number
WitnessC16 ==
  \E p \in Procs :
    /\ calls[p].op = "onEvent" /\ calls[p].pc = "kvGet"
    /\ calls[p].variables =
         [id |-> JsStr("bp2"),
          input |-> [templateInputs |-> <<[id |-> "zone", value |-> "x"],
                                          [id |-> "count", value |-> "1"]>>]]

(* C17: a block invocation emits at most one event, and only once
   executeSpaceliftQuery has returned data, the event carrying that data's
   stackIds and runIds; when extraction, token acquisition or the query fails,
   the invocation ends with the error and emits no event. *)
TheoremC17 ==
  /\ Len(events) = Cardinality({p \in Procs : calls[p].nEmit = 1})
  /\ \A p \in Procs :
       LET c == calls[p]
       IN  /\ c.nEmit <= 1
           /\ c.nEmit = 1 =>
                /\ c.op = "onEvent"
                /\ c.pc \in {"emit", "done"}
                /\ c.error = NoError
                /\ c.nResponses >= 1 /\ Len(c.sent) = c.nResponses
                /\ ~c.result.hasErrors /\ c.result.hasData
                /\ \E i \in 1..Len(events) :
                     /\ events[i].stackIds = c.result.data.stackIds
                     /\ events[i].runIds = c.result.data.runIds
           /\ c.pc = "failed" => c.nEmit = 0 /\ c.error # NoError
           /\ c.op = "onEvent" /\ c.pc = "done" => c.nEmit = 1

\* the retried request has returned data and the block has emitted it
WitnessC17 ==
  \E p \in Procs :
    LET c == calls[p]
    IN  /\ c.op = "onEvent" /\ c.pc = "done" /\ c.nResponses = 2
        /\ events = <<[stackIds |-> <<"stack-1">>, runIds |-> <<"run-1">>]>>

\* executeSpaceliftQuery has returned its data to onEvent, or has thrown
QueryEnded(c) == c.pc \in {"emit", "done", "failed"}

(* C18: provided every cache call and every network call returns, each
   executeSpaceliftQuery call terminates, returning data or raising an error,
   after at most one cache read, two logins, two cache writes and two query
   requests; it reaches all the maxima only on a cache miss followed by an
   unauthorized first response. *)
TheoremC18 ==
  /\ [](\A p \in Procs :
          LET c == calls[p]
          IN  c.op = "onEvent" =>
                /\ c.nGet <= 1 /\ c.nLogin <= 2 /\ c.nSet <= 2 /\ Len(c.sent) <= 2
                /\ c.nResponses <= Len(c.sent)
                /\ c.nLogin = 2 =>
                     /\ c.got = "miss"
                     /\ FirstHasErrors(c) /\ isUnauthorized(c.first.errors)
                /\ QueryEnded(c) => c.nResponses = Len(c.sent) /\ c.set = NoSet)
  /\ \A p \in Procs : (calls[p].op = "onEvent") ~> QueryEnded(calls[p])

\* a call has ended after one cache read, two logins, two cache writes and
\* two requests
WitnessC18 ==
  \E p \in Procs :
    LET c == calls[p]
    IN  /\ c.op = "onEvent" /\ QueryEnded(c)
        /\ c.nGet = 1 /\ c.nLogin = 2 /\ c.nSet = 2 /\ Len(c.sent) = 2

(* C19: starting from an empty cache, after any getSpaceliftJWT,
   refreshSpaceliftJWT and executeSpaceliftQuery calls every cache entry
   holds a non-empty jwt that a successful login returned, and no validUntil;
   so getSpaceliftJWT never returns an empty token and every query request
   carries a token a login issued. *)
TheoremC19 ==
  /\ \A k \in DOMAIN cache :
       /\ DOMAIN cache[k].value = {"jwt"}
       /\ cache[k].value.jwt # ""
       /\ cache[k].value.jwt \in IssuedTokens
  /\ \A p \in Procs :
       LET c == calls[p]
       IN  /\ c.op \in {"getSpaceliftJWT", "refreshSpaceliftJWT"} /\ c.pc = "done" =>
                c.jwt # "" /\ c.jwt \in IssuedTokens
           /\ \A i \in 1..Len(c.sent) :
                c.sent[i] # "" /\ c.sent[i] \in IssuedTokens
           /\ \A i \in 1..Len(c.issued) : c.issued[i] \in JWTs

\* getSpaceliftJWT has returned the token another call's refresh had cached,
\* and an executeSpaceliftQuery would send it
WitnessC19 ==
  \E p, q \in Procs :
    /\ calls[p].op = "refreshSpaceliftJWT" /\ calls[p].pc = "done"
    /\ calls[q].op = "getSpaceliftJWT" /\ calls[q].pc = "done"
    /\ calls[q].got = "hit" /\ calls[q].issued = <<>>
    /\ calls[q].jwt = calls[p].issued[1]
    /\ \E k \in DOMAIN cache : cache[k].value.jwt = calls[q].jwt

\* the token the call got from getSpaceliftJWT
FirstToken(c) == IF c.op = "onEvent" THEN c.sent[1] ELSE c.jwt

(* C20: while the cache holds a readable entry for the call's (endpoint,
   apiKeyId), the token getSpaceliftJWT returns, which executeSpaceliftQuery
   sends with its first request, is that entry's, whatever the apiKeySecret:
   a run with credentials that differ in apiKeySecret only reads the same
   token from that cache state, and neither logs in; a login comes only after
   a cache miss or for the retry's refresh. *)
TheoremC20 ==
  [][\A p \in Procs :
       LET c == calls[p]
           d == calls'[p]
       IN  /\ c.pc = "kvGet" /\ d.pc # "kvGet" =>
                \A k \in DOMAIN cache :
                  SameIdentity(cache[k].writer, c.credentials)
                    /\ clock < cache[k].expiresAt =>
                      /\ d.got = "hit"
                      /\ FirstToken(d) = cache[k].value.jwt
                      /\ d.nLogin = 0 /\ d.nSet = 0 /\ d.issued = <<>>
                      /\ \A other \in ValidCredentials :
                           SameIdentity(other, c.credentials) =>
                             KvGet(cache, getCacheKey(other), clock)
                               = [hasValue |-> TRUE, value |-> [jwt |-> FirstToken(d)]]
           /\ d.op \in {"onEvent", "getSpaceliftJWT"} =>
                d.nLogin = GetLogins(d) + RetryLogins(d)]_vars

\* getSpaceliftJWT, run with one secret, has returned the token cached by a
\* refresh run with another, without a login
WitnessC20 ==
  \E p \in Procs :
    LET c == calls[p]
    IN  /\ c.op = "getSpaceliftJWT" /\ c.pc = "done" /\ c.got = "hit"
        /\ c.credentials.apiKeySecret = JsNum("5")
        /\ c.cacheKey \in DOMAIN cache
        /\ cache[c.cacheKey].writer.apiKeySecret = JsStr("b")
        /\ SameIdentity(cache[c.cacheKey].writer, c.credentials)
        /\ c.jwt = cache[c.cacheKey].value.jwt
        /\ c.nLogin = 0

====
